---- MODULE Spec2Model ----
(***************************************************************************)
(* speedlog: an asynchronous leveled logger.  The repository holds three   *)
(* variants of the Logger:                                                 *)
(*   - the blocking (no-loss) package embedded in src/README.md,           *)
(*     specification Spec;                                                 *)
(*   - the drop-on-full variant in src/unnamed/part_000,                   *)
(*     specification SpecDrop;                                             *)
(*   - the synchronous variant in src/main.go, which writes under a mutex  *)
(*     on the caller's goroutine, specification SpecMutex.                 *)
(* Producers format a record and send it on a bounded channel; one writer  *)
(* goroutine receives records and writes them to a bufio.Writer per sink.  *)
(***************************************************************************)
EXTENDS Integers, Sequences, FiniteSets, TLC

\* ---------------------------------------------------------------- bounds
\* capacity of l.ch (WithChannelSize); the program default is 1024
ChanCap == 2
\* log/logf calls the producer goroutines make in total
MaxCalls == 3
\* refreshes of the cached timestamp that are told apart
MaxTs == 1

\* ------------------------------------------------------------- constants
DEBUG == 0
INFO == 1
WARN == 2
ERROR == 3

\* goroutines of the application that call log/logf
Producers == {"p1", "p2"}
\* goroutines of the application that call Close
Closers == {"c1", "c2"}
\* l.writers as New(WithWriter(&buf), WithWriter(f)) leaves it: a writer
\* without Close and a file
optionWriters == <<"buffer", "file">>
Sinks == 1..Len(optionWriters)
\* l.writers as New(filePath) of the drop-on-full variant leaves it
fileWriters == <<"stdout", "file">>

\* levels the producers log at, and levels SetLevel is called with
LogLevels == {INFO, ERROR}
SetLevels == {DEBUG, WARN}

levelNames == <<"DEBUG", "INFO", "WARN", "ERROR">>

NoLine == <<>>

VARIABLES
    writers,    \* l.writers, in list order
    level,      \* l.level, the threshold
    ts,         \* l.ts, the cached timestamp
    ch,         \* l.ch, the records in the channel buffer, oldest first
    done,       \* l.done is closed
    wg,         \* l.wg, the background goroutines still running
    closeOnce,  \* l.closeOnce: "new", "running" (f is executing), "done"
    bufs,       \* l.bufs[i]: the records held in sink i's bufio.Writer
    out,        \* what sink i's underlying writer has received
    err,        \* sink i's bufio.Writer has met a write error (it keeps it)
    broken,     \* the sinks whose underlying writer fails every Write
    closeErr,   \* the sinks whose underlying writer returns an error from Close
    mu,         \* l.mu of the synchronous variant: "free" or the goroutine holding it
    pi,         \* each producer's index into l.bufs (synchronous variant)
    closed,     \* Close calls sink i's underlying writer has received
    pool,       \* records whose buffer has been Put back into l.bufPool
    pc,         \* position of each producer: "idle", "logf", "select"
    calls,      \* log/logf calls each producer has made
    line,       \* the record each producer has formatted
    wpc,        \* position of the writer goroutine
    wi,         \* the writer goroutine's index into l.bufs
    wline,      \* the record the writer goroutine has received
    tpc,        \* position of the second background goroutine
    ti,         \* its index into l.bufs (autoFlush)
    cpc,        \* position of each Close caller
    ci,         \* each Close caller's index into l.bufs / l.writers
    spc,        \* position of the Sync caller
    si,         \* the Sync caller's index into l.bufs
    panicked,   \* the process has panicked (close of a closed channel)
    wrote,      \* history: the records passed to bw.Write of sink i, in order
    early,      \* history: at the first Close call, the records past their level check
    preClose,   \* history: at the first Close call, the records sent and not yet written
    blocked,    \* history: at close(l.done), the records of the calls suspended on a full channel
    runs,       \* history: how often the function given to closeOnce.Do has started
    late,       \* history: the producer's call started after a Close call returned
    dropped     \* history: records given up by the default case of a select

vars == <<writers, broken, closeErr, mu, pi, level, ts, ch, done, wg, closeOnce, bufs,
          out, err, closed, pool, pc, calls, line, wpc, wi, wline, tpc, ti, cpc, ci,
          spc, si, panicked, wrote, early, preClose, blocked, runs, late, dropped>>

loggerVars == <<writers, broken, closeErr, mu, pi, level, ts, ch, done, wg, closeOnce,
                bufs, out, err, closed, pool>>
producerVars == <<pc, calls, line>>
writerVars == <<wpc, wi, wline>>
taskVars == <<tpc, ti>>
closeVars == <<cpc, ci>>
syncVars == <<spc, si>>
histVars == <<wrote, early, preClose, blocked, runs, dropped>>

\* ----------------------------------------------------------------- helpers
\* w.(io.Closer): whether the writer at index i implements Close (an *os.File
\* does, a bytes.Buffer does not)
IsCloser(i) == writers[i] \in {"stdout", "file"}

\* A comparison that leaves out the threshold itself.
IsLevelEnabled_above(lv) == lv > level

IsLevelEnabled(lv) == lv >= level

\* Some goroutine is inside Close or has returned from it.
CloseInvoked == \E c \in Closers : cpc[c] # "idle"
\* Some Close call has returned.
CloseReturned == \E c \in Closers : cpc[c] = "returned"

RECURSIVE Sum(_, _)
Sum(f, S) == IF S = {} THEN 0 ELSE LET x == CHOOSE y \in S : TRUE IN f[x] + Sum(f, S \ {x})
\* log/logf calls made so far
TotalCalls == Sum(calls, Producers)

\* The line log() builds: timestamp, level tag, message.  The message of
\* producer p's n-th call is <<p, n>>.
LevelName(lv) == IF lv >= 0 /\ lv < Len(levelNames) THEN levelNames[lv + 1] ELSE "UNK"
Format(stamp, lv, msg) == [ts |-> stamp, tag |-> LevelName(lv), msg |-> msg]

Range(s) == {s[k] : k \in 1..Len(s)}

\* The records sent on l.ch and not yet written to every sink: those in the
\* channel and the one the writer goroutine has received.
Pending == Range(ch) \cup (IF wpc \in {"write", "dwrite"} THEN {wline} ELSE {})
\* The records sent on l.ch so far.
Sent == Pending \cup Range(wrote[1])

\* bufio.Writer.Write on sink i: the bytes are copied behind what is buffered;
\* a bufio.Writer that has met a write error takes nothing and returns the
\* error, which the callers here ignore.
BufWrite(i, rec) ==
    /\ bufs' = [bufs EXCEPT ![i] = IF err[i] THEN @ ELSE Append(@, rec)]
    /\ wrote' = [wrote EXCEPT ![i] = Append(@, rec)]

\* The underlying writer of sink i refuses a Write: it is broken, or it is a
\* file that has been closed.
WriteFails(i) == i \in broken \/ closed[i] > 0
\* bufio.Writer.Flush on sink i does nothing when the bufio.Writer has met an
\* error before or holds no bytes.  First half: b.wr.Write(b.buf[0:b.n]).
FlushCalls(i) == ~err[i] /\ bufs[i] # <<>>
FlushEmits(i) == FlushCalls(i) /\ ~WriteFails(i)
FlushWrite(i) == out' = [out EXCEPT ![i] = @ \o bufs[i]] /\ UNCHANGED err
\* A Flush that emits nothing: the refused Write leaves the bytes buffered and
\* its error in the bufio.Writer.
FlushSkip(i) ==
    /\ err' = [err EXCEPT ![i] = @ \/ (FlushCalls(i) /\ WriteFails(i))]
    /\ UNCHANGED out
\* second half: b.n = 0.
FlushReset(i) == bufs' = [bufs EXCEPT ![i] = <<>>]
\* A Flush that hands the buffered bytes to the sink and keeps them buffered.
Flush_noReset(i) ==
    IF FlushEmits(i)
    THEN FlushWrite(i) /\ UNCHANGED bufs
    ELSE FlushSkip(i) /\ UNCHANGED bufs

\* Both halves with nothing in between: a Flush no other goroutine's bufio
\* call overlaps.
Flush(i) ==
    IF FlushEmits(i)
    THEN FlushWrite(i) /\ FlushReset(i)
    ELSE FlushSkip(i) /\ UNCHANGED bufs

\* ------------------------------------------------------------------- Init
Init ==
    /\ writers = optionWriters
    /\ level = INFO
    /\ ts = 0
    /\ ch = <<>>
    /\ done = FALSE
    /\ wg = 2
    /\ closeOnce = "new"
    /\ bufs = [i \in Sinks |-> <<>>]
    /\ out = [i \in Sinks |-> <<>>]
    /\ err = [i \in Sinks |-> FALSE]
    /\ broken = {}
    /\ closeErr = {}
    /\ mu = "none"
    /\ pi = [p \in Producers |-> 1]
    /\ closed = [i \in Sinks |-> 0]
    /\ pool = {}
    /\ pc = [p \in Producers |-> "idle"]
    /\ calls = [p \in Producers |-> 0]
    /\ line = [p \in Producers |-> NoLine]
    /\ wpc = "select"
    /\ wi = 1
    /\ wline = NoLine
    /\ tpc = "select"
    /\ ti = 1
    /\ cpc = [c \in Closers |-> "idle"]
    /\ ci = [c \in Closers |-> 1]
    /\ spc = "idle"
    /\ si = 1
    /\ panicked = FALSE
    /\ wrote = [i \in Sinks |-> <<>>]
    /\ early = {}
    /\ preClose = {}
    /\ blocked = {}
    /\ runs = 0
    /\ late = [p \in Producers |-> FALSE]
    /\ dropped = {}

\* New with sinks of which any may be broken: its underlying writer returns an
\* error from every Write.
InitFanOut ==
    /\ writers = optionWriters
    /\ level = INFO
    /\ ts = 0
    /\ ch = <<>>
    /\ done = FALSE
    /\ wg = 2
    /\ closeOnce = "new"
    /\ bufs = [i \in Sinks |-> <<>>]
    /\ out = [i \in Sinks |-> <<>>]
    /\ err = [i \in Sinks |-> FALSE]
    /\ broken \in SUBSET Sinks
    /\ closeErr = {}
    /\ mu = "none"
    /\ pi = [p \in Producers |-> 1]
    /\ closed = [i \in Sinks |-> 0]
    /\ pool = {}
    /\ pc = [p \in Producers |-> "idle"]
    /\ calls = [p \in Producers |-> 0]
    /\ line = [p \in Producers |-> NoLine]
    /\ wpc = "select"
    /\ wi = 1
    /\ wline = NoLine
    /\ tpc = "select"
    /\ ti = 1
    /\ cpc = [c \in Closers |-> "idle"]
    /\ ci = [c \in Closers |-> 1]
    /\ spc = "idle"
    /\ si = 1
    /\ panicked = FALSE
    /\ wrote = [i \in Sinks |-> <<>>]
    /\ early = {}
    /\ preClose = {}
    /\ blocked = {}
    /\ runs = 0
    /\ late = [p \in Producers |-> FALSE]
    /\ dropped = {}

\* ------------------------------------------------ Logger.SetLevel (README)
SetLevel(lv) ==
    /\ ~panicked
    /\ level' = lv
    /\ UNCHANGED <<writers, broken, closeErr, mu, pi, ts, ch, done, wg, closeOnce,
                   bufs, out, err, closed, pool>>
    /\ UNCHANGED <<producerVars, writerVars, taskVars, closeVars, syncVars,
                   panicked, histVars, late>>

\* ----------------------------------------------------- Logger.log (README)
\* The level check, bufPool.Get and the formatting of the line.
log(p, lv) ==
    /\ ~panicked
    /\ pc[p] = "idle"
    /\ TotalCalls < MaxCalls
    /\ calls' = [calls EXCEPT ![p] = @ + 1]
    /\ late' = [late EXCEPT ![p] = CloseReturned]
    /\ IF IsLevelEnabled(lv)
       THEN /\ line' = [line EXCEPT ![p] = Format(ts, lv, <<p, calls[p] + 1>>)]
            /\ pc' = [pc EXCEPT ![p] = "select"]
       ELSE UNCHANGED <<line, pc>>
    /\ UNCHANGED <<loggerVars, writerVars, taskVars, closeVars, syncVars,
                   panicked, histVars>>

\* Logger.logf: its own level check, then fmt.Sprintf; the call of l.log
\* follows as a second step.
logf(p, lv) ==
    /\ ~panicked
    /\ pc[p] = "idle"
    /\ TotalCalls < MaxCalls
    /\ calls' = [calls EXCEPT ![p] = @ + 1]
    /\ late' = [late EXCEPT ![p] = CloseReturned]
    /\ IF IsLevelEnabled(lv)
       THEN /\ line' = [line EXCEPT ![p] = [lv |-> lv, msg |-> <<p, calls[p] + 1>>]]
            /\ pc' = [pc EXCEPT ![p] = "logf"]
       ELSE UNCHANGED <<line, pc>>
    /\ UNCHANGED <<loggerVars, writerVars, taskVars, closeVars, syncVars,
                   panicked, histVars>>

\* l.log(level, msg) called from logf: the level is checked again.
logfLog(p) ==
    /\ ~panicked
    /\ pc[p] = "logf"
    /\ IF IsLevelEnabled(line[p].lv)
       THEN /\ line' = [line EXCEPT ![p] = Format(ts, line[p].lv, line[p].msg)]
            /\ pc' = [pc EXCEPT ![p] = "select"]
       ELSE /\ line' = [line EXCEPT ![p] = NoLine]
            /\ pc' = [pc EXCEPT ![p] = "idle"]
    /\ UNCHANGED <<loggerVars, calls, writerVars, taskVars, closeVars, syncVars,
                   panicked, histVars, late>>

\* select: case l.ch <- buf
logSend(p) ==
    /\ ~panicked
    /\ pc[p] = "select"
    /\ Len(ch) < ChanCap
    /\ ch' = Append(ch, line[p])
    /\ pc' = [pc EXCEPT ![p] = "idle"]
    /\ line' = [line EXCEPT ![p] = NoLine]
    /\ UNCHANGED <<writers, broken, closeErr, mu, pi, level, ts, done, wg, closeOnce,
                   bufs, out, err, closed, pool>>
    /\ UNCHANGED <<calls, writerVars, taskVars, closeVars, syncVars, panicked,
                   histVars, late>>

\* select: case <-l.done, then l.bufPool.Put(buf)
logDone(p) ==
    /\ ~panicked
    /\ pc[p] = "select"
    /\ done
    /\ pool' = pool \cup {line[p]}
    /\ pc' = [pc EXCEPT ![p] = "idle"]
    /\ line' = [line EXCEPT ![p] = NoLine]
    /\ UNCHANGED <<writers, broken, closeErr, mu, pi, level, ts, ch, done, wg,
                   closeOnce, bufs, out, err, closed>>
    /\ UNCHANGED <<calls, writerVars, taskVars, closeVars, syncVars, panicked,
                   histVars, late>>

\* A select with a default case, which gives up when the channel is full.
logSelect_dropOnFull(p) ==
    \/ logSend(p)
    \/ logDone(p)
    \/ /\ ~panicked
       /\ pc[p] = "select"
       /\ Len(ch) >= ChanCap
       /\ ~done
       /\ pc' = [pc EXCEPT ![p] = "idle"]
       /\ line' = [line EXCEPT ![p] = NoLine]
       /\ UNCHANGED <<loggerVars, calls, writerVars, taskVars, closeVars,
                      syncVars, panicked, histVars, late>>

\* A plain send, with no case for l.done.
logSelect_noDone(p) == logSend(p)

\* The select statement of log: one of the ready cases is taken.
logSelect(p) == logSend(p) \/ logDone(p)

\* ------------------------------------------------ Logger.writerLoop (README)
\* A receive that takes the newest record of the channel instead of the oldest.
writerRecv_newest ==
    /\ ~panicked
    /\ wpc = "select"
    /\ ch # <<>>
    /\ wline' = ch[Len(ch)]
    /\ ch' = SubSeq(ch, 1, Len(ch) - 1)
    /\ wpc' = "write"
    /\ wi' = 1
    /\ UNCHANGED <<writers, broken, closeErr, mu, pi, level, ts, done, wg, closeOnce,
                   bufs, out, err, closed, pool>>
    /\ UNCHANGED <<producerVars, taskVars, closeVars, syncVars, panicked,
                   histVars, late>>

\* for { select { case line := <-l.ch:
writerRecv ==
    /\ ~panicked
    /\ wpc = "select"
    /\ ch # <<>>
    /\ wline' = Head(ch)
    /\ ch' = Tail(ch)
    /\ wpc' = "write"
    /\ wi' = 1
    /\ UNCHANGED <<writers, broken, closeErr, mu, pi, level, ts, done, wg, closeOnce,
                   bufs, out, err, closed, pool>>
    /\ UNCHANGED <<producerVars, taskVars, closeVars, syncVars, panicked, histVars, late>>

\* A write loop that gives the record up at the first sink that returns an
\* error.
WriteStep_stopOnError(back) ==
    /\ BufWrite(wi, wline)
    /\ IF wi < Len(writers) /\ ~err[wi]
       THEN /\ wi' = wi + 1
            /\ UNCHANGED <<wpc, wline, pool>>
       ELSE /\ pool' = pool \cup {wline}
            /\ wpc' = back
            /\ wi' = 1
            /\ wline' = NoLine
    /\ UNCHANGED <<writers, broken, closeErr, mu, pi, level, ts, ch, done, wg,
                   closeOnce, out, err, closed>>
    /\ UNCHANGED <<producerVars, taskVars, closeVars, syncVars, panicked,
                   early, preClose, blocked, runs, late, dropped>>

\* A write loop that puts the buffer back after the first sink.
WriteStep_putFirst(back) ==
    /\ BufWrite(wi, wline)
    /\ pool' = pool \cup {wline}
    /\ IF wi < Len(writers)
       THEN /\ wi' = wi + 1
            /\ UNCHANGED <<wpc, wline>>
       ELSE /\ wpc' = back
            /\ wi' = 1
            /\ wline' = NoLine
    /\ UNCHANGED <<writers, broken, closeErr, mu, pi, level, ts, ch, done, wg,
                   closeOnce, out, err, closed>>
    /\ UNCHANGED <<producerVars, taskVars, closeVars, syncVars, panicked,
                   early, preClose, blocked, runs, late, dropped>>

\* for _, bw := range l.bufs { bw.Write(line) }; l.bufPool.Put(line)
\* One step per sink; the Put follows the last Write.  `back` is where the
\* loop continues: "select" in the running loop, "drain" in the drain loop.
WriteStep(back) ==
    /\ BufWrite(wi, wline)
    /\ IF wi < Len(writers)
       THEN /\ wi' = wi + 1
            /\ UNCHANGED <<wpc, wline, pool>>
       ELSE /\ pool' = pool \cup {wline}
            /\ wpc' = back
            /\ wi' = 1
            /\ wline' = NoLine
    /\ UNCHANGED <<writers, broken, closeErr, mu, pi, level, ts, ch, done, wg,
                   closeOnce, out, err, closed>>
    /\ UNCHANGED <<producerVars, taskVars, closeVars, syncVars, panicked,
                   early, preClose, blocked, runs, late, dropped>>

writerWrite ==
    /\ ~panicked
    /\ wpc = "write"
    /\ WriteStep("select")

\* case <-ticker.C: flushAll()
writerTick ==
    /\ ~panicked
    /\ wpc = "select"
    /\ wpc' = "flush"
    /\ wi' = 1
    /\ UNCHANGED <<loggerVars, wline, producerVars, taskVars, closeVars,
                   syncVars, panicked, histVars, late>>

\* flushAll: bw.Flush() of sink wi, one step per sink.  `back` is where the
\* caller continues after the last sink.
FlushStep(back) ==
    /\ Flush(wi)
    /\ wpc' = IF wi < Len(writers) THEN wpc ELSE back
    /\ wi' = IF wi < Len(writers) THEN wi + 1 ELSE 1
    /\ UNCHANGED <<writers, broken, closeErr, mu, pi, level, ts, ch, done, closeOnce,
                   closed, pool>>

\* A flushAll that walks over l.bufs without calling Flush.
writerFlush_skip ==
    /\ ~panicked
    /\ wpc = "flush"
    /\ wpc' = IF wi < Len(writers) THEN wpc ELSE "select"
    /\ wi' = IF wi < Len(writers) THEN wi + 1 ELSE 1
    /\ UNCHANGED <<loggerVars, wline, producerVars, taskVars, closeVars, syncVars,
                   panicked, histVars, late>>

writerFlush ==
    /\ ~panicked
    /\ wpc = "flush"
    /\ FlushStep("select")
    /\ UNCHANGED <<wg, wline, producerVars, taskVars, closeVars, syncVars,
                   panicked, histVars, late>>

\* A shutdown branch that flushes and returns without draining the channel.
writerDone_noDrain ==
    /\ ~panicked
    /\ wpc = "select"
    /\ done
    /\ wpc' = "dflush"
    /\ wi' = 1
    /\ UNCHANGED <<loggerVars, wline, producerVars, taskVars, closeVars,
                   syncVars, panicked, histVars, late>>

\* case <-l.done: the drain loop is entered
writerDone ==
    /\ ~panicked
    /\ wpc = "select"
    /\ done
    /\ wpc' = "drain"
    /\ UNCHANGED <<loggerVars, wi, wline, producerVars, taskVars, closeVars,
                   syncVars, panicked, histVars, late>>

\* drain loop: select { case line := <-l.ch: ... default: flushAll(); return }
writerDrainRecv ==
    /\ ~panicked
    /\ wpc = "drain"
    /\ ch # <<>>
    /\ wline' = Head(ch)
    /\ ch' = Tail(ch)
    /\ wpc' = "dwrite"
    /\ wi' = 1
    /\ UNCHANGED <<writers, broken, closeErr, mu, pi, level, ts, done, wg, closeOnce,
                   bufs, out, err, closed, pool>>
    /\ UNCHANGED <<producerVars, taskVars, closeVars, syncVars, panicked, histVars, late>>

writerDrainWrite ==
    /\ ~panicked
    /\ wpc = "dwrite"
    /\ WriteStep("drain")

\* A drain loop that may stop polling while records are left in the channel.
writerDrainDefault_anytime ==
    /\ ~panicked
    /\ wpc = "drain"
    /\ wpc' = "dflush"
    /\ wi' = 1
    /\ UNCHANGED <<loggerVars, wline, producerVars, taskVars, closeVars,
                   syncVars, panicked, histVars, late>>

writerDrainDefault ==
    /\ ~panicked
    /\ wpc = "drain"
    /\ ch = <<>>
    /\ wpc' = "dflush"
    /\ wi' = 1
    /\ UNCHANGED <<loggerVars, wline, producerVars, taskVars, closeVars,
                   syncVars, panicked, histVars, late>>

writerDrainFlush ==
    /\ ~panicked
    /\ wpc = "dflush"
    /\ FlushStep("return")
    /\ UNCHANGED <<wg, wline, producerVars, taskVars, closeVars, syncVars,
                   panicked, histVars, late>>

\* return; defer l.wg.Done()
writerReturn ==
    /\ ~panicked
    /\ wpc = "return"
    /\ wpc' = "stopped"
    /\ wg' = wg - 1
    /\ UNCHANGED <<writers, broken, closeErr, mu, pi, level, ts, ch, done, closeOnce,
                   bufs, out, err, closed, pool>>
    /\ UNCHANGED <<wi, wline, producerVars, taskVars, closeVars, syncVars,
                   panicked, histVars, late>>

\* The running loop and the drain loop of writerLoop.
writerRunning ==
    \/ writerRecv
    \/ writerWrite
    \/ writerTick
    \/ writerFlush

writerDraining ==
    \/ writerDone
    \/ writerDrainRecv
    \/ writerDrainWrite
    \/ writerDrainDefault
    \/ writerDrainFlush
    \/ writerReturn

writerLoop == writerRunning \/ writerDraining

\* --------------------------------------------- Logger.timestampLoop (README)
\* case <-ticker.C: the formatted time is stored in l.ts
timestampTick ==
    /\ ~panicked
    /\ tpc = "select"
    /\ ts < MaxTs
    /\ ts' = ts + 1
    /\ UNCHANGED <<writers, broken, closeErr, mu, pi, level, ch, done, wg, closeOnce,
                   bufs, out, err, closed, pool>>
    /\ UNCHANGED <<producerVars, writerVars, taskVars, closeVars, syncVars,
                   panicked, histVars, late>>

\* case <-l.done: return; defer l.wg.Done()
timestampDone ==
    /\ ~panicked
    /\ tpc = "select"
    /\ done
    /\ tpc' = "stopped"
    /\ wg' = wg - 1
    /\ UNCHANGED <<writers, broken, closeErr, mu, pi, level, ts, ch, done, closeOnce,
                   bufs, out, err, closed, pool>>
    /\ UNCHANGED <<ti, producerVars, writerVars, closeVars, syncVars, panicked,
                   histVars, late>>

timestampLoop == timestampTick \/ timestampDone

\* ------------------------------------------------------ Logger.Sync (README)
\* for _, bw := range l.bufs { _ = bw.Flush() }, on the caller's goroutine
Sync ==
    /\ ~panicked
    /\ spc = "idle"
    /\ spc' = "flush"
    /\ si' = 1
    /\ UNCHANGED <<loggerVars, producerVars, writerVars, taskVars, closeVars,
                   panicked, histVars, late>>

syncFlush ==
    /\ ~panicked
    /\ \/ /\ spc = "flush"
          /\ IF FlushEmits(si)
             THEN /\ FlushWrite(si)
                  /\ spc' = "reset"
                  /\ UNCHANGED si
             ELSE /\ FlushSkip(si)
                  /\ spc' = IF si < Len(writers) THEN "flush" ELSE "idle"
                  /\ si' = IF si < Len(writers) THEN si + 1 ELSE 1
          /\ UNCHANGED bufs
       \/ /\ spc = "reset"
          /\ FlushReset(si)
          /\ spc' = IF si < Len(writers) THEN "flush" ELSE "idle"
          /\ si' = IF si < Len(writers) THEN si + 1 ELSE 1
          /\ UNCHANGED <<out, err>>
    /\ UNCHANGED <<writers, broken, closeErr, mu, pi, level, ts, ch, done, wg,
                   closeOnce, closed, pool>>
    /\ UNCHANGED <<producerVars, writerVars, taskVars, closeVars, panicked,
                   histVars, late>>

\* ----------------------------------------------------- Logger.Close (README)
\* A goroutine calls Close and arrives at l.closeOnce.Do.
Close(c) ==
    /\ ~panicked
    /\ cpc[c] = "idle"
    /\ cpc' = [cpc EXCEPT ![c] = "once"]
    /\ IF CloseInvoked
       THEN UNCHANGED <<early, preClose>>
       ELSE /\ preClose' = Pending
            /\ early' = Sent \cup {line[p] : p \in {q \in Producers : pc[q] = "select"}}
    /\ UNCHANGED <<loggerVars, producerVars, writerVars, taskVars, ci, syncVars,
                   panicked, wrote, blocked, runs, late, dropped>>

\* A guard built on a flag that is tested and set, without the Once's mutex: a
\* caller that arrives while f runs returns at once.
closeOnceDo_noWait(c) ==
    /\ ~panicked
    /\ cpc[c] = "once"
    /\ \/ /\ closeOnce = "new"
          /\ closeOnce' = "running"
          /\ cpc' = [cpc EXCEPT ![c] = "signal"]
          /\ runs' = runs + 1
       \/ /\ closeOnce # "new"
          /\ cpc' = [cpc EXCEPT ![c] = "returned"]
          /\ UNCHANGED <<closeOnce, runs>>
    /\ UNCHANGED <<writers, broken, closeErr, mu, pi, level, ts, ch, done, wg, bufs,
                   out, err, closed, pool>>
    /\ UNCHANGED <<producerVars, writerVars, taskVars, ci, syncVars, panicked,
                   wrote, early, preClose, blocked, late, dropped>>

\* A Once that guards only close(l.done): every caller goes on to wait, flush
\* and close the writers.
closeOnceDo_signalOnly(c) ==
    /\ ~panicked
    /\ cpc[c] = "once"
    /\ \/ /\ closeOnce = "new"
          /\ closeOnce' = "running"
          /\ cpc' = [cpc EXCEPT ![c] = "signal"]
          /\ runs' = runs + 1
       \/ /\ closeOnce # "new"
          /\ cpc' = [cpc EXCEPT ![c] = "wait"]
          /\ UNCHANGED <<closeOnce, runs>>
    /\ UNCHANGED <<writers, broken, closeErr, mu, pi, level, ts, ch, done, wg, bufs,
                   out, err, closed, pool>>
    /\ UNCHANGED <<producerVars, writerVars, taskVars, ci, syncVars, panicked,
                   wrote, early, preClose, blocked, late, dropped>>

\* sync.Once.Do: the first caller runs f; a caller that arrives while f runs
\* waits on the Once's mutex and returns when f has returned; a later caller
\* returns at once.
closeOnceDo(c) ==
    /\ ~panicked
    /\ cpc[c] = "once"
    /\ \/ /\ closeOnce = "new"
          /\ closeOnce' = "running"
          /\ cpc' = [cpc EXCEPT ![c] = "signal"]
          /\ runs' = runs + 1
       \/ /\ closeOnce = "done"
          /\ cpc' = [cpc EXCEPT ![c] = "returned"]
          /\ UNCHANGED <<closeOnce, runs>>
    /\ UNCHANGED <<writers, broken, closeErr, mu, pi, level, ts, ch, done, wg, bufs,
                   out, err, closed, pool>>
    /\ UNCHANGED <<producerVars, writerVars, taskVars, ci, syncVars, panicked,
                   wrote, early, preClose, blocked, late, dropped>>

\* close(l.done); closing a closed channel panics
closeSignal(c) ==
    /\ ~panicked
    /\ cpc[c] = "signal"
    /\ IF done
       THEN /\ panicked' = TRUE
            /\ UNCHANGED <<done, cpc, blocked>>
       ELSE /\ done' = TRUE
            /\ cpc' = [cpc EXCEPT ![c] = "wait"]
            /\ blocked' = IF Len(ch) = ChanCap
                          THEN {line[p] : p \in {q \in Producers : pc[q] = "select"}}
                          ELSE {}
            /\ UNCHANGED panicked
    /\ UNCHANGED <<writers, broken, closeErr, mu, pi, level, ts, ch, wg, closeOnce,
                   bufs, out, err, closed, pool>>
    /\ UNCHANGED <<producerVars, writerVars, taskVars, ci, syncVars, wrote, early,
                   preClose, runs, dropped, late>>

\* A Close that goes on to flush and close without waiting for the goroutines.
closeWait_noWait(c) ==
    /\ ~panicked
    /\ cpc[c] = "wait"
    /\ cpc' = [cpc EXCEPT ![c] = "flush"]
    /\ ci' = [ci EXCEPT ![c] = 1]
    /\ UNCHANGED <<loggerVars, producerVars, writerVars, taskVars, syncVars,
                   panicked, histVars, late>>

\* l.wg.Wait()
closeWait(c) ==
    /\ ~panicked
    /\ cpc[c] = "wait"
    /\ wg = 0
    /\ cpc' = [cpc EXCEPT ![c] = "flush"]
    /\ ci' = [ci EXCEPT ![c] = 1]
    /\ UNCHANGED <<loggerVars, producerVars, writerVars, taskVars, syncVars,
                   panicked, histVars, late>>

\* for _, bw := range l.bufs { _ = bw.Flush() }
closeFlush(c) ==
    /\ ~panicked
    /\ cpc[c] = "flush"
    /\ Flush(ci[c])
    /\ cpc' = [cpc EXCEPT ![c] = IF ci[c] < Len(writers) THEN "flush" ELSE "close"]
    /\ ci' = [ci EXCEPT ![c] = IF @ < Len(writers) THEN @ + 1 ELSE 1]
    /\ UNCHANGED <<writers, broken, closeErr, mu, pi, level, ts, ch, done, wg,
                   closeOnce, closed, pool>>
    /\ UNCHANGED <<producerVars, writerVars, taskVars, syncVars, panicked,
                   histVars, late>>

\* for _, w := range l.writers { if c, ok := w.(io.Closer); ok { _ = c.Close() } }
\* One step per writer; after the last one f returns, the Once is done and
\* Close returns.
closeWriters(c) ==
    /\ ~panicked
    /\ cpc[c] = "close"
    /\ closed' = [closed EXCEPT ![ci[c]] = IF IsCloser(ci[c]) THEN @ + 1 ELSE @]
    /\ IF ci[c] < Len(writers)
       THEN /\ ci' = [ci EXCEPT ![c] = @ + 1]
            /\ UNCHANGED <<cpc, closeOnce>>
       ELSE /\ ci' = [ci EXCEPT ![c] = 1]
            /\ cpc' = [cpc EXCEPT ![c] = "returned"]
            /\ closeOnce' = "done"
    /\ UNCHANGED <<writers, broken, closeErr, mu, pi, level, ts, ch, done, wg, bufs,
                   out, err, pool>>
    /\ UNCHANGED <<producerVars, writerVars, taskVars, syncVars, panicked,
                   histVars, late>>

\* ======================= the drop-on-full variant, src/unnamed/part_000
InitDrop ==
    /\ writers = fileWriters
    /\ level = INFO
    /\ ts = 0
    /\ ch = <<>>
    /\ done = FALSE
    /\ wg = 2
    /\ closeOnce = "none"
    /\ bufs = [i \in Sinks |-> <<>>]
    /\ out = [i \in Sinks |-> <<>>]
    /\ err = [i \in Sinks |-> FALSE]
    /\ broken = {}
    /\ closeErr = {}
    /\ mu = "none"
    /\ pi = [p \in Producers |-> 1]
    /\ closed = [i \in Sinks |-> 0]
    /\ pool = {}
    /\ pc = [p \in Producers |-> "idle"]
    /\ calls = [p \in Producers |-> 0]
    /\ line = [p \in Producers |-> NoLine]
    /\ wpc = "select"
    /\ wi = 1
    /\ wline = NoLine
    /\ tpc = "select"
    /\ ti = 1
    /\ cpc = [c \in Closers |-> "idle"]
    /\ ci = [c \in Closers |-> 1]
    /\ spc = "idle"
    /\ si = 1
    /\ panicked = FALSE
    /\ wrote = [i \in Sinks |-> <<>>]
    /\ early = {}
    /\ preClose = {}
    /\ blocked = {}
    /\ runs = 0
    /\ late = [p \in Producers |-> FALSE]
    /\ dropped = {}

\* Logger.log: the level check, the formatting into a pooled buffer, the copy
\* for the channel and bufPool.Put of the pooled buffer.  `ts` stands for
\* time.Now().
logDrop(p, lv) ==
    /\ ~panicked
    /\ pc[p] = "idle"
    /\ TotalCalls < MaxCalls
    /\ calls' = [calls EXCEPT ![p] = @ + 1]
    /\ late' = [late EXCEPT ![p] = CloseReturned]
    /\ IF lv < level
       THEN UNCHANGED <<line, pc, pool>>
       ELSE /\ line' = [line EXCEPT ![p] = Format(ts, lv, <<p, calls[p] + 1>>)]
            /\ pool' = pool \cup {line'[p]}
            /\ pc' = [pc EXCEPT ![p] = "select"]
    /\ UNCHANGED <<writers, broken, closeErr, mu, pi, level, ts, ch, done, wg,
                   closeOnce, bufs, out, err, closed>>
    /\ UNCHANGED <<writerVars, taskVars, closeVars, syncVars, panicked, histVars>>

\* Logger.logf: the same steps, the message built by fmt.Appendf.
logfDrop(p, lv) ==
    /\ ~panicked
    /\ pc[p] = "idle"
    /\ TotalCalls < MaxCalls
    /\ calls' = [calls EXCEPT ![p] = @ + 1]
    /\ late' = [late EXCEPT ![p] = CloseReturned]
    /\ IF lv < level
       THEN UNCHANGED <<line, pc, pool>>
       ELSE /\ line' = [line EXCEPT ![p] = Format(ts, lv, <<p, calls[p] + 1>>)]
            /\ pool' = pool \cup {line'[p]}
            /\ pc' = [pc EXCEPT ![p] = "select"]
    /\ UNCHANGED <<writers, broken, closeErr, mu, pi, level, ts, ch, done, wg,
                   closeOnce, bufs, out, err, closed>>
    /\ UNCHANGED <<writerVars, taskVars, closeVars, syncVars, panicked, histVars>>

\* select: case l.ch <- bufCopy
selectSendDrop(p) ==
    /\ ~panicked
    /\ pc[p] = "select"
    /\ Len(ch) < ChanCap
    /\ ch' = Append(ch, line[p])
    /\ pc' = [pc EXCEPT ![p] = "idle"]
    /\ line' = [line EXCEPT ![p] = NoLine]
    /\ UNCHANGED <<writers, broken, closeErr, mu, pi, level, ts, done, wg, closeOnce,
                   bufs, out, err, closed, pool>>
    /\ UNCHANGED <<calls, writerVars, taskVars, closeVars, syncVars, panicked,
                   histVars, late>>

\* select: case <-l.done
selectDoneDrop(p) ==
    /\ ~panicked
    /\ pc[p] = "select"
    /\ done
    /\ dropped' = dropped \cup {line[p]}
    /\ pc' = [pc EXCEPT ![p] = "idle"]
    /\ line' = [line EXCEPT ![p] = NoLine]
    /\ UNCHANGED <<loggerVars, calls, writerVars, taskVars, closeVars, syncVars,
                   panicked, wrote, early, preClose, blocked, runs, late>>

\* select: default, taken when no other case is ready
selectDefaultDrop(p) ==
    /\ ~panicked
    /\ pc[p] = "select"
    /\ Len(ch) >= ChanCap
    /\ ~done
    /\ dropped' = dropped \cup {line[p]}
    /\ pc' = [pc EXCEPT ![p] = "idle"]
    /\ line' = [line EXCEPT ![p] = NoLine]
    /\ UNCHANGED <<loggerVars, calls, writerVars, taskVars, closeVars, syncVars,
                   panicked, wrote, early, preClose, blocked, runs, late>>

\* A select without the default case.
selectDrop_noDefault(p) == selectSendDrop(p) \/ selectDoneDrop(p)

\* The select statement of log and of logf.
selectDrop(p) == selectSendDrop(p) \/ selectDoneDrop(p) \/ selectDefaultDrop(p)

\* Logger.runWriter: for _, bw := range l.bufs { bw.Write(buf) }, one step per
\* sink; nothing is put back into the pool.
WriteStepDrop(back) ==
    /\ BufWrite(wi, wline)
    /\ IF wi < Len(writers)
       THEN /\ wi' = wi + 1
            /\ UNCHANGED <<wpc, wline>>
       ELSE /\ wpc' = back
            /\ wi' = 1
            /\ wline' = NoLine
    /\ UNCHANGED <<writers, broken, closeErr, mu, pi, level, ts, ch, done, wg,
                   closeOnce, out, err, closed, pool>>
    /\ UNCHANGED <<producerVars, taskVars, closeVars, syncVars, panicked,
                   early, preClose, blocked, runs, late, dropped>>

runWriterWrite ==
    /\ ~panicked
    /\ wpc = "write"
    /\ WriteStepDrop("select")

runWriterDrainWrite ==
    /\ ~panicked
    /\ wpc = "dwrite"
    /\ WriteStepDrop("drain")

\* runWriter has the receive, the shutdown branch and the drain loop of
\* writerLoop, and no ticker.
runWriter ==
    \/ writerRecv
    \/ runWriterWrite
    \/ writerDone
    \/ writerDrainRecv
    \/ runWriterDrainWrite
    \/ writerDrainDefault
    \/ writerDrainFlush
    \/ writerReturn

\* Logger.autoFlush: case <-t.C
autoFlushTick ==
    /\ ~panicked
    /\ tpc = "select"
    /\ tpc' = "flush"
    /\ ti' = 1
    /\ UNCHANGED <<loggerVars, producerVars, writerVars, closeVars, syncVars,
                   panicked, histVars, late>>

\* for _, bw := range l.bufs { bw.Flush() }, on the autoFlush goroutine: the two
\* halves of each Flush are steps of their own, since runWriter uses the same
\* bufio.Writer at the same time.
autoFlushFlush ==
    /\ ~panicked
    /\ \/ /\ tpc = "flush"
          /\ IF FlushEmits(ti)
             THEN /\ FlushWrite(ti)
                  /\ tpc' = "reset"
                  /\ UNCHANGED ti
             ELSE /\ FlushSkip(ti)
                  /\ tpc' = IF ti < Len(writers) THEN "flush" ELSE "select"
                  /\ ti' = IF ti < Len(writers) THEN ti + 1 ELSE 1
          /\ UNCHANGED bufs
       \/ /\ tpc = "reset"
          /\ FlushReset(ti)
          /\ tpc' = IF ti < Len(writers) THEN "flush" ELSE "select"
          /\ ti' = IF ti < Len(writers) THEN ti + 1 ELSE 1
          /\ UNCHANGED <<out, err>>
    /\ UNCHANGED <<writers, broken, closeErr, mu, pi, level, ts, ch, done, wg,
                   closeOnce, closed, pool>>
    /\ UNCHANGED <<producerVars, writerVars, closeVars, syncVars, panicked,
                   histVars, late>>

\* case <-l.done: return; defer l.wg.Done()
autoFlushDone ==
    /\ ~panicked
    /\ tpc = "select"
    /\ done
    /\ tpc' = "stopped"
    /\ wg' = wg - 1
    /\ UNCHANGED <<writers, broken, closeErr, mu, pi, level, ts, ch, done, closeOnce,
                   bufs, out, err, closed, pool>>
    /\ UNCHANGED <<ti, producerVars, writerVars, closeVars, syncVars, panicked,
                   histVars, late>>

autoFlush == autoFlushTick \/ autoFlushFlush \/ autoFlushDone

\* Logger.Close: there is no Once; the caller goes straight to close(l.done).
CloseDrop(c) ==
    /\ ~panicked
    /\ cpc[c] = "idle"
    /\ cpc' = [cpc EXCEPT ![c] = "signal"]
    /\ IF CloseInvoked
       THEN UNCHANGED <<early, preClose>>
       ELSE /\ preClose' = Pending
            /\ early' = Sent \cup {line[p] : p \in {q \in Producers : pc[q] = "select"}}
    /\ UNCHANGED <<loggerVars, producerVars, writerVars, taskVars, ci, syncVars,
                   panicked, wrote, blocked, runs, late, dropped>>

\* for _, w := range l.writers { if c, ok := w.(io.Closer); ok { c.Close() } }
closeWritersDrop(c) ==
    /\ ~panicked
    /\ cpc[c] = "close"
    /\ closed' = [closed EXCEPT ![ci[c]] = IF IsCloser(ci[c]) THEN @ + 1 ELSE @]
    /\ IF ci[c] < Len(writers)
       THEN /\ ci' = [ci EXCEPT ![c] = @ + 1]
            /\ UNCHANGED cpc
       ELSE /\ ci' = [ci EXCEPT ![c] = 1]
            /\ cpc' = [cpc EXCEPT ![c] = "returned"]
    /\ UNCHANGED <<writers, broken, closeErr, mu, pi, level, ts, ch, done, wg,
                   closeOnce, bufs, out, err, pool>>
    /\ UNCHANGED <<producerVars, writerVars, taskVars, syncVars, panicked,
                   histVars, late>>

CloseStepsDrop(c) ==
    \/ CloseDrop(c)
    \/ closeSignal(c)
    \/ closeWait(c)
    \/ closeFlush(c)
    \/ closeWritersDrop(c)

LogCallsDrop(p, lv) ==
    \/ logDrop(p, lv)
    \/ logfDrop(p, lv)

\* The producers log at INFO and one goroutine calls Close.
NextDrop ==
    \/ \E p \in Producers : LogCallsDrop(p, INFO)
    \/ \E p \in Producers : selectDrop(p)
    \/ runWriter
    \/ autoFlush
    \/ CloseStepsDrop("c1")

SpecDrop == InitDrop /\ [][NextDrop]_vars

\* Shutdown of the drop-on-full variant: two goroutines call Close while one
\* producer logs.
NextDropClose ==
    \/ LogCallsDrop("p1", INFO)
    \/ selectDrop("p1")
    \/ runWriter
    \/ autoFlush
    \/ \E c \in Closers : CloseStepsDrop(c)

SpecDropClose == InitDrop /\ [][NextDropClose]_vars

\* ========================= the synchronous variant, src/main.go
\* New(filePath): a terminal and a file, no goroutine and no channel.  Close of
\* a sink may return an error.
InitMutex ==
    /\ writers = fileWriters
    /\ broken = {}
    /\ closeErr \in SUBSET Sinks
    /\ mu = "free"
    /\ pi = [p \in Producers |-> 1]
    /\ level = INFO
    /\ ts = 0
    /\ ch = <<>>
    /\ done = FALSE
    /\ wg = 0
    /\ closeOnce = "none"
    /\ bufs = [i \in Sinks |-> <<>>]
    /\ out = [i \in Sinks |-> <<>>]
    /\ err = [i \in Sinks |-> FALSE]
    /\ closed = [i \in Sinks |-> 0]
    /\ pool = {}
    /\ pc = [p \in Producers |-> "idle"]
    /\ calls = [p \in Producers |-> 0]
    /\ line = [p \in Producers |-> NoLine]
    /\ wpc = "stopped"
    /\ wi = 1
    /\ wline = NoLine
    /\ tpc = "stopped"
    /\ ti = 1
    /\ cpc = [c \in Closers |-> "idle"]
    /\ ci = [c \in Closers |-> 1]
    /\ spc = "idle"
    /\ si = 1
    /\ panicked = FALSE
    /\ wrote = [i \in Sinks |-> <<>>]
    /\ early = {}
    /\ preClose = {}
    /\ blocked = {}
    /\ runs = 0
    /\ late = [p \in Producers |-> FALSE]
    /\ dropped = {}

\* Logger.log: the level check and the formatting of the line, before the lock.
logMutex(p, lv) ==
    /\ pc[p] = "idle"
    /\ TotalCalls < MaxCalls
    /\ calls' = [calls EXCEPT ![p] = @ + 1]
    /\ late' = [late EXCEPT ![p] = CloseReturned]
    /\ IF lv < level
       THEN UNCHANGED <<line, pc>>
       ELSE /\ line' = [line EXCEPT ![p] = Format(ts, lv, <<p, calls[p] + 1>>)]
            /\ pc' = [pc EXCEPT ![p] = "lock"]
    /\ UNCHANGED <<loggerVars, writerVars, taskVars, closeVars, syncVars,
                   panicked, histVars>>

\* Logger.logf: the same steps, the message built by fmt.Appendf.
logfMutex(p, lv) ==
    /\ pc[p] = "idle"
    /\ TotalCalls < MaxCalls
    /\ calls' = [calls EXCEPT ![p] = @ + 1]
    /\ late' = [late EXCEPT ![p] = CloseReturned]
    /\ IF lv < level
       THEN UNCHANGED <<line, pc>>
       ELSE /\ line' = [line EXCEPT ![p] = Format(ts, lv, <<p, calls[p] + 1>>)]
            /\ pc' = [pc EXCEPT ![p] = "lock"]
    /\ UNCHANGED <<loggerVars, writerVars, taskVars, closeVars, syncVars,
                   panicked, histVars>>

\* The variables the steps of log under the lock leave alone.
logMutexFrame ==
    /\ UNCHANGED <<writers, broken, closeErr, level, ts, ch, done, wg, closeOnce, closed>>
    /\ UNCHANGED <<calls, writerVars, taskVars, closeVars, syncVars, panicked,
                   early, preClose, blocked, runs, late, dropped>>

\* A log that enters its write loop without taking l.mu.
logLock_noMutex(p) ==
    /\ pc[p] = "lock"
    /\ pc' = [pc EXCEPT ![p] = "write"]
    /\ pi' = [pi EXCEPT ![p] = 1]
    /\ UNCHANGED <<mu, bufs, out, err, pool, line, wrote>>
    /\ logMutexFrame

\* l.mu.Lock()
logLock(p) ==
    /\ pc[p] = "lock"
    /\ mu = "free"
    /\ mu' = p
    /\ pc' = [pc EXCEPT ![p] = "write"]
    /\ pi' = [pi EXCEPT ![p] = 1]
    /\ UNCHANGED <<bufs, out, err, pool, line, wrote>>
    /\ logMutexFrame

\* for _, bw := range l.bufs { bw.Write(buf) }, one step per sink
logWrite(p) ==
    /\ pc[p] = "write"
    /\ BufWrite(pi[p], line[p])
    /\ pc' = [pc EXCEPT ![p] = IF pi[p] < Len(writers) THEN "write" ELSE "flush"]
    /\ pi' = [pi EXCEPT ![p] = IF @ < Len(writers) THEN @ + 1 ELSE 1]
    /\ UNCHANGED <<mu, out, err, pool, line>>
    /\ logMutexFrame

\* for _, bw := range l.bufs { bw.Flush() }, one step per sink
logFlush(p) ==
    /\ pc[p] = "flush"
    /\ Flush(pi[p])
    /\ pc' = [pc EXCEPT ![p] = IF pi[p] < Len(writers) THEN "flush" ELSE "unlock"]
    /\ pi' = [pi EXCEPT ![p] = IF @ < Len(writers) THEN @ + 1 ELSE 1]
    /\ UNCHANGED <<mu, pool, line, wrote>>
    /\ logMutexFrame

\* l.mu.Unlock(); l.bufPool.Put(buf)
logUnlock(p) ==
    /\ pc[p] = "unlock"
    /\ mu' = "free"
    /\ pool' = pool \cup {line[p]}
    /\ pc' = [pc EXCEPT ![p] = "idle"]
    /\ line' = [line EXCEPT ![p] = NoLine]
    /\ UNCHANGED <<pi, bufs, out, err, wrote>>
    /\ logMutexFrame

\* The variables the steps of Close leave alone.
CloseMutexFrame ==
    /\ UNCHANGED <<writers, broken, closeErr, pi, level, ts, ch, done, wg, closeOnce, pool>>
    /\ UNCHANGED <<producerVars, writerVars, taskVars, syncVars, panicked,
                   histVars, late>>

\* Logger.Close: l.mu.Lock(); defer l.mu.Unlock()
CloseMutex(c) ==
    /\ cpc[c] = "idle"
    /\ mu = "free"
    /\ mu' = c
    /\ cpc' = [cpc EXCEPT ![c] = "flush"]
    /\ ci' = [ci EXCEPT ![c] = 1]
    /\ UNCHANGED <<bufs, out, err, closed>>
    /\ CloseMutexFrame

\* for _, buf := range l.bufs { buf.Flush() }
closeFlushMutex(c) ==
    /\ cpc[c] = "flush"
    /\ Flush(ci[c])
    /\ cpc' = [cpc EXCEPT ![c] = IF ci[c] < Len(writers) THEN "flush" ELSE "close"]
    /\ ci' = [ci EXCEPT ![c] = IF @ < Len(writers) THEN @ + 1 ELSE 1]
    /\ UNCHANGED <<mu, closed>>
    /\ CloseMutexFrame

\* The error c.Close() returns: the sink's own, or that of a file which is
\* closed already.
CloseFails(i) == IsCloser(i) /\ (i \in closeErr \/ closed[i] > 0)

\* for _, w := range l.writers { if c, ok := w.(io.Closer); ok {
\*     if err := c.Close(); err != nil { return err } } }; return nil
\* One step per writer; the deferred Unlock runs at the return.
closeWritersMutex(c) ==
    /\ cpc[c] = "close"
    /\ closed' = [closed EXCEPT ![ci[c]] = IF IsCloser(ci[c]) THEN @ + 1 ELSE @]
    /\ IF ci[c] < Len(writers) /\ ~CloseFails(ci[c])
       THEN /\ ci' = [ci EXCEPT ![c] = @ + 1]
            /\ UNCHANGED <<cpc, mu>>
       ELSE /\ ci' = [ci EXCEPT ![c] = 1]
            /\ cpc' = [cpc EXCEPT ![c] = "returned"]
            /\ mu' = "free"
    /\ UNCHANGED <<bufs, out, err>>
    /\ CloseMutexFrame

CloseStepsMutex(c) ==
    \/ CloseMutex(c)
    \/ closeFlushMutex(c)
    \/ closeWritersMutex(c)

LogStepsMutex(p) ==
    \/ logMutex(p, INFO)
    \/ logfMutex(p, INFO)
    \/ logLock(p)
    \/ logWrite(p)
    \/ logFlush(p)
    \/ logUnlock(p)

\* The producers log at INFO, two goroutines call Close.
NextMutex ==
    \/ \E p \in Producers : LogStepsMutex(p)
    \/ \E c \in Closers : CloseStepsMutex(c)

SpecMutex == InitMutex /\ [][NextMutex]_vars

\* The producers log at the same time and nobody calls Close.
NextMutexLog == \E p \in Producers : LogStepsMutex(p)

SpecMutexLog == InitMutex /\ [][NextMutexLog]_vars

\* ============================================================ Logger.Close
\* One Close call, from arrival to return.
CloseSteps(c) ==
    \/ Close(c)
    \/ closeOnceDo(c)
    \/ closeSignal(c)
    \/ closeWait(c)
    \/ closeFlush(c)
    \/ closeWriters(c)

\* log and logf calls of producer p at level lv, up to the select.
LogCalls(p, lv) ==
    \/ log(p, lv)
    \/ logf(p, lv)

\* ------------------------------------------------------------------- Next
\* Every operation of the package.
Next ==
    \/ \E lv \in SetLevels : SetLevel(lv)
    \/ \E p \in Producers, lv \in LogLevels : LogCalls(p, lv)
    \/ \E p \in Producers : logfLog(p)
    \/ \E p \in Producers : logSelect(p)
    \/ writerLoop
    \/ timestampLoop
    \/ Sync
    \/ syncFlush
    \/ \E c \in Closers : CloseSteps(c)

\* Logging and shutdown: the producers log at INFO, one goroutine calls Close,
\* the threshold and the cached timestamp stay as constructed.
NextLog ==
    \/ \E p \in Producers : LogCalls(p, INFO)
    \/ \E p \in Producers : logfLog(p)
    \/ \E p \in Producers : logSelect(p)
    \/ writerLoop
    \/ timestampDone
    \/ CloseSteps("c1")

Spec == Init /\ [][NextLog]_vars

\* Shutdown: two goroutines call Close while one producer logs.
NextClose ==
    \/ log("p1", INFO)
    \/ logSelect("p1")
    \/ writerLoop
    \/ timestampLoop
    \/ \E c \in Closers : CloseSteps(c)

SpecClose == Init /\ [][NextClose]_vars

\* Sync during logging and shutdown: one producer logs, one goroutine calls
\* Sync as often as it likes, one goroutine calls Close.
NextSync ==
    \/ log("p1", INFO)
    \/ logSelect("p1")
    \/ writerLoop
    \/ timestampDone
    \/ Sync
    \/ syncFlush
    \/ CloseSteps("c1")

SpecSync == Init /\ [][NextSync]_vars

\* End to end: one goroutine logs up to ChanCap records at INFO, one call after
\* the other, and then calls Close.  No call is at its select when l.done is
\* closed, so the send is the only case of the select that is taken.
NextEndToEnd ==
    \/ /\ ~CloseInvoked
       /\ calls["p1"] < ChanCap
       /\ LogCalls("p1", INFO)
    \/ logfLog("p1")
    \/ logSend("p1")
    \/ writerLoop
    \/ timestampLoop
    \/ /\ pc["p1"] = "idle"
       /\ calls["p1"] >= 1
       /\ Close("c1")
    \/ closeOnceDo("c1")
    \/ closeSignal("c1")
    \/ closeWait("c1")
    \/ closeFlush("c1")
    \/ closeWriters("c1")

SpecEndToEnd == Init /\ [][NextEndToEnd]_vars

\* Level filtering on a running Logger: SetLevel is called at any time, the
\* producers log at INFO and at ERROR, and nobody calls Close, so that the
\* <-l.done case of the select in log is never ready.
NextLevel ==
    \/ \E lv \in SetLevels : SetLevel(lv)
    \/ \E p \in Producers, lv \in LogLevels : LogCalls(p, lv)
    \/ \E p \in Producers : logfLog(p)
    \/ \E p \in Producers : logSend(p)
    \/ writerRunning

SpecLevel == Init /\ [][NextLevel]_vars

\* Scheduling: a goroutine that can run does run (weak fairness of every step
\* of the producers, the writer goroutine, timestampLoop and Close); a select
\* picks at random among its ready cases, so the receive of the running loop,
\* which is ready whenever the loop is back at its select with a record in the
\* channel, is taken in the end (strong fairness).
Fairness ==
    /\ \A p \in Producers : WF_vars(logfLog(p)) /\ WF_vars(logSelect(p))
    /\ SF_vars(writerRecv)
    /\ WF_vars(writerWrite \/ writerFlush \/ writerDraining)
    /\ WF_vars(timestampDone)
    /\ WF_vars(closeOnceDo("c1") \/ closeSignal("c1") \/ closeWait("c1")
                 \/ closeFlush("c1") \/ closeWriters("c1"))

FairSpec == Spec /\ Fairness

FairLevel == SpecLevel /\ Fairness

\* Scheduling during shutdown: once l.done is closed its case is ready at every
\* select of writerLoop, next to a ticker case that is ready only now and
\* then, and the random choice of the select takes it in the end (strong
\* fairness).
FairnessShutdown ==
    /\ Fairness
    /\ SF_vars(writerDone)

FairShutdown == Spec /\ FairnessShutdown

\* Logging and shutdown with broken sinks: one producer logs, one goroutine
\* calls Close.
NextFanOut ==
    \/ log("p1", INFO)
    \/ logSelect("p1")
    \/ writerLoop
    \/ timestampDone
    \/ CloseSteps("c1")

SpecFanOut == InitFanOut /\ [][NextFanOut]_vars

FairFanOut == SpecFanOut /\ Fairness

\* Scheduling on a running Logger: the ticker of writerLoop fires every 500 ms,
\* so its case is ready again and again at the select, and the random choice
\* of the select takes it in the end (strong fairness).
FairnessTick ==
    /\ Fairness
    /\ SF_vars(writerTick)

FairTick == SpecLevel /\ FairnessTick

\* ------------------------------------------------------------------ claims
SameProducer(r1, r2) == r1.msg[1] = r2.msg[1]
CallNo(r) == r.msg[2]

\* C1: on every sink, the records of one producer are written in the order
\* of that producer's calls, which is the order in which it enqueued them.
C1_Fifo ==
    \A i \in Sinks : \A j, k \in 1..Len(wrote[i]) :
        (j < k /\ SameProducer(wrote[i][j], wrote[i][k]))
            => CallNo(wrote[i][j]) < CallNo(wrote[i][k])

\* Two records of one producer and a record of the other producer have been
\* written to the last sink.
C1_Witness ==
    \E j, k, m \in 1..Len(wrote[Len(writers)]) :
        /\ j < k
        /\ SameProducer(wrote[Len(writers)][j], wrote[Len(writers)][k])
        /\ ~SameProducer(wrote[Len(writers)][j], wrote[Len(writers)][m])

\* The records whose buffer went back to the pool without having been written.
Discarded == pool \ Range(wrote[1])
\* The records sent on l.ch before any Close call that may still be unwritten.
SentRunning == IF CloseInvoked THEN preClose ELSE Sent
WrittenEverywhere(r) == \A i \in Sinks : r \in Range(wrote[i])

\* C2 (as claimed): a record whose call passed the level check before Close
\* was invoked is never discarded.
C2_NoLossWhileRunning == \A r \in early : r \notin Discarded

\* C2 (amended): a call at its select returns; it returns having sent its
\* record on the channel, or, once l.done is closed, having discarded it and
\* put the buffer back; and the records sent before Close was invoked are in
\* the end written to every sink.
C2_NoLossBeforeClose ==
    /\ [][\A p \in Producers :
            (pc[p] = "select" /\ pc'[p] = "idle")
                => \/ ch' = Append(ch, line[p])
                   \/ done /\ ch' = ch /\ line[p] \in pool']_vars
    /\ \A p \in Producers : (pc[p] = "select") ~> (pc[p] = "idle")
    /\ <>[](\A r \in SentRunning : WrittenEverywhere(r))

\* Before any Close call, one producer has made ChanCap + 1 calls, one more
\* than the channel holds, and all its records are written to every sink.
C2_Witness ==
    \E p \in Producers :
        /\ ~CloseInvoked
        /\ calls[p] = ChanCap + 1
        /\ pc[p] = "idle"
        /\ \A i \in Sinks : Len(wrote[i]) = ChanCap + 1

\* C3: the channel never holds more than ChanCap records, and a producer at
\* its select with the channel full and no shutdown signal stays there: it
\* returns only after a step in which the channel is not full or l.done is
\* closed.
C3_Backpressure ==
    [][/\ Len(ch') <= ChanCap
       /\ \A p \in Producers :
            (pc[p] = "select" /\ Len(ch) = ChanCap /\ ~done)
                => (pc'[p] = "select" /\ line'[p] = line[p])]_vars

\* One producer has enqueued ChanCap records, the writer goroutine has
\* received none, and the producer is suspended in its next call.
C3_Witness ==
    \E p \in Producers :
        /\ pc[p] = "select"
        /\ calls[p] = ChanCap + 1
        /\ Len(ch) = ChanCap
        /\ \A k \in 1..Len(ch) : ch[k].msg[1] = p
        /\ wrote[1] = <<>>
        /\ wpc = "select"
        /\ ~done

\* C5: the function given to closeOnce.Do starts at most once and l.done is
\* never closed twice; when a Close call has returned, that function has run
\* to its end: the signal is given, both goroutines have stopped, the buffers
\* are flushed and every writer that has Close has been closed.
C5_CloseOnce ==
    /\ runs <= 1
    /\ ~panicked
    /\ \A c \in Closers :
         cpc[c] = "returned"
             => /\ runs = 1
                /\ closeOnce = "done"
                /\ done
                /\ wg = 0 /\ wpc = "stopped" /\ tpc = "stopped"
                /\ \A i \in Sinks : bufs[i] = <<>>
                /\ \A i \in Sinks : IsCloser(i) => closed[i] > 0

\* Every caller of Close has returned, after records were written.
C5_Witness ==
    /\ \A c \in Closers : cpc[c] = "returned"
    /\ wrote[1] # <<>>

\* C6 (as claimed): when a writer has received its Close call, every record
\* that was sent on l.ch and not yet written when Close was first invoked has
\* reached the underlying writer of every sink.
C6_DrainBeforeClose ==
    (\E i \in Sinks : closed[i] > 0)
        => \A r \in preClose : \A j \in Sinks : r \in Range(out[j])

\* C7: no writer receives more than one Close call, a writer without Close
\* receives none, and once a Close call of the Logger has returned every
\* writer that has Close has received exactly one.
C7_OneClosePerSink ==
    /\ \A i \in Sinks : closed[i] <= (IF IsCloser(i) THEN 1 ELSE 0)
    /\ CloseReturned => \A i \in Sinks : IsCloser(i) => closed[i] = 1

\* One Close call has returned and a second one is in progress.
C7_Witness ==
    \E c, d \in Closers :
        /\ cpc[c] = "returned"
        /\ cpc[d] = "once"
        /\ \E i \in Sinks : closed[i] = 1

\* C8 (as claimed): a log call that started after Close returned leaves the
\* channel and the sinks alone and has put its buffer back when it returns.
C8_PostCloseNoOp ==
    [][\A p \in Producers :
         (late[p] /\ pc[p] = "select" /\ pc'[p] = "idle")
             => (ch' = ch /\ wrote' = wrote /\ line[p] \in pool')]_vars

\* C9: a log/logf call that started after Close returned comes back to its
\* caller, and the process has not panicked.
C9_PostCloseReturns ==
    /\ [](CloseReturned => ~panicked)
    /\ \A p \in Producers : (late[p] /\ pc[p] # "idle") ~> (pc[p] = "idle")

\* After Close has returned a call is at its select with the channel full.
C9_Witness ==
    \E p \in Producers : late[p] /\ pc[p] = "select" /\ Len(ch) = ChanCap

\* C10: IsLevelEnabled(lv) is lv >= threshold.  A log or logf call at a level
\* below the threshold of the moment returns with the channel and every sink
\* untouched; a call at or above it goes on to format and enqueue; the second
\* check, when logf calls log, decides in the same way.  On a running Logger
\* every record that is enqueued, so every record logged at ERROR under any
\* threshold SetLevel is given here, is in the end written to every sink.
C10_LevelFilter ==
    /\ [](\A lv \in DEBUG..ERROR : IsLevelEnabled(lv) <=> lv >= level)
    /\ [][\A p \in Producers, lv \in LogLevels :
            (log(p, lv) \/ logf(p, lv))
                => IF lv >= level
                   THEN pc'[p] \in {"select", "logf"}
                   ELSE /\ pc'[p] = "idle"
                        /\ <<ch, bufs, out, wrote, pool>>' = <<ch, bufs, out, wrote, pool>>]_vars
    /\ [][\A p \in Producers :
            logfLog(p)
                => IF line[p].lv >= level
                   THEN pc'[p] = "select" /\ line'[p].tag = LevelName(line[p].lv)
                   ELSE /\ pc'[p] = "idle"
                        /\ <<ch, bufs, out, wrote, pool>>' = <<ch, bufs, out, wrote, pool>>]_vars
    /\ \A p \in Producers : (pc[p] = "select") ~> (line[p] = NoLine)
    /\ <>[](\A r \in Sent : WrittenEverywhere(r))

\* With the threshold at WARN two calls have been made: one was filtered, the
\* other, at ERROR, is written to every sink.
C10_Witness ==
    /\ level = WARN
    /\ TotalCalls = 2
    /\ \A p \in Producers : pc[p] = "idle"
    /\ ch = <<>>
    /\ \A i \in Sinks : Len(wrote[i]) = 1 /\ wrote[i][1].tag = "ERROR"

\* C4: in the drop-on-full variant a producer at its select can always take a
\* step, so it is never suspended; the step it takes with the channel full
\* ends the call and leaves the channel as it was; and a record given up by
\* the default case is neither in the channel nor written to any sink, then
\* or later.
C4_DropOnFull ==
    /\ [](\A p \in Producers : pc[p] = "select" => ENABLED selectDrop(p))
    /\ [][\A p \in Producers :
            (pc[p] = "select" /\ Len(ch) = ChanCap /\ pc'[p] # "select")
                => (pc'[p] = "idle" /\ ch' = ch /\ wrote' = wrote /\ bufs' = bufs)]_vars
    /\ [](\A r \in dropped :
            /\ r \notin Range(ch)
            /\ \A i \in Sinks : r \notin Range(wrote[i]) \cup Range(bufs[i]) \cup Range(out[i]))

\* One producer has made ChanCap + 1 calls while runWriter received nothing:
\* the last call has returned, its record given up, the channel still full.
C4_Witness ==
    \E p \in Producers :
        /\ calls[p] = ChanCap + 1
        /\ pc[p] = "idle"
        /\ Len(ch) = ChanCap
        /\ dropped # {}
        /\ wrote[1] = <<>>
        /\ wpc = "select"
        /\ ~done

\* C11 (as claimed): a log or logf call that starts after SetLevel has stored
\* a threshold is filtered by that threshold; and a call that has passed its
\* level check returns only by sending its record on the channel, whatever
\* SetLevel stores in between.
C11_SetLevelSubsequent ==
    /\ [][\A p \in Producers, lv \in LogLevels :
            (log(p, lv) \/ logf(p, lv)) => (pc'[p] = "idle" <=> lv < level)]_vars
    /\ [][\A p \in Producers :
            (pc[p] # "idle" /\ pc'[p] = "idle")
                => /\ Len(ch') = Len(ch) + 1
                   /\ ch'[Len(ch')].msg = line[p].msg]_vars

\* C12: once l.done is closed, writerLoop and timestampLoop both return; a
\* Close call that has been made returns, and only when both goroutines have
\* returned; and no writer receives its Close call while one of them runs.
C12_ShutdownOrder ==
    /\ [](\A i \in Sinks : closed[i] > 0 => (wpc = "stopped" /\ tpc = "stopped"))
    /\ [](CloseReturned => (wg = 0 /\ wpc = "stopped" /\ tpc = "stopped"))
    /\ done ~> (wpc = "stopped" /\ tpc = "stopped")
    /\ \A c \in Closers : (cpc[c] # "idle") ~> (cpc[c] = "returned")

\* Close has returned: the file has received its Close call, after the
\* producers' records were written and both goroutines returned.
C12_Witness ==
    /\ CloseReturned
    /\ closed[Len(writers)] = 1
    /\ wpc = "stopped"
    /\ tpc = "stopped"
    /\ Len(wrote[1]) = MaxCalls

\* C13 (as claimed): while a goroutine other than the writer goroutine is
\* inside a bufio call on a sink (between the two halves of a Flush), no other
\* goroutine touches that sink's buffer; as long as the writer goroutine runs,
\* only its steps change a sink's buffer; and no step of a producer does.
C13_SingleWriter ==
    /\ [][(spc = "reset" /\ spc' = "reset") => bufs'[si] = bufs[si]]_vars
    /\ [][(tpc = "reset" /\ tpc' = "reset") => bufs'[ti] = bufs[ti]]_vars
    /\ [][(bufs' # bufs /\ wpc # "stopped") => <<wpc, wi>>' # <<wpc, wi>>]_vars
    /\ [][(pc' # pc) => bufs' = bufs]_vars

\* C14: on a Logger nobody closes or syncs, what a sink has received and what
\* its buffer holds are together what was written to it; a buffer that holds
\* records is emptied; and in the end every record written to a sink's buffer
\* has reached the sink.
C14_PeriodicFlush ==
    /\ [](\A i \in Sinks : out[i] \o bufs[i] = wrote[i])
    /\ \A i \in Sinks : (bufs[i] # <<>>) ~> (bufs[i] = <<>>)
    /\ <>[](\A i \in Sinks : out[i] = wrote[i])

\* All calls are made and the channel is empty; l.done is open, no Close or
\* Sync call was made, and every sink has received a record.
C14_Witness ==
    /\ TotalCalls = MaxCalls
    /\ ch = <<>>
    /\ ~done /\ ~CloseInvoked /\ spc = "idle"
    /\ \A i \in Sinks : out[i] # <<>> /\ out[i] = wrote[i]

\* C15: when Close has returned to the goroutine that logged k records
\* (k <= ChanCap) and then called it, every sink holds exactly k lines, the
\* j-th of them the record of the j-th call.  (No call is at its select once
\* l.done is closed.)
C15_EndToEnd ==
    /\ pc["p1"] = "select" => ~done
    /\ CloseReturned =>
         \A i \in Sinks :
            /\ Len(out[i]) = calls["p1"]
            /\ \A j \in 1..Len(out[i]) :
                 out[i][j].msg = <<"p1", j>> /\ out[i][j].tag = LevelName(INFO)

\* Close has returned after ChanCap records were logged, and the last of them
\* was still in the channel when Close was called.
C15_Witness ==
    /\ CloseReturned
    /\ calls["p1"] = ChanCap
    /\ preClose # {}
    /\ \A i \in Sinks : Len(out[i]) = ChanCap

\* The phases of writerLoop: the running loop, the drain loop with its final
\* flushAll, and the return.
WorkerRunning == wpc \in {"select", "write", "flush"}
WorkerDraining == wpc \in {"drain", "dwrite", "dflush", "return"}
WorkerStopped == wpc = "stopped"

\* C16: writerLoop goes from its running loop to the drain loop only when
\* l.done is closed, and from the drain loop only to its return; in the drain
\* loop it receives the oldest record as long as the channel holds one and
\* writes it to every sink; it starts the final flushAll only on an empty
\* channel, flushes each sink once in list order and returns; from the start
\* of that flushAll on it writes nothing; and once in the drain loop it gets
\* to its return.
C16_DrainProtocol ==
    /\ [][/\ WorkerRunning => (WorkerRunning' \/ (done /\ wpc' = "drain"))
          /\ WorkerDraining => (WorkerDraining' \/ WorkerStopped')
          /\ WorkerStopped => WorkerStopped']_vars
    /\ [][(wpc = "drain" /\ wpc' # "drain")
             => IF ch = <<>>
                THEN wpc' = "dflush" /\ wi' = 1
                ELSE wpc' = "dwrite" /\ wline' = Head(ch) /\ ch' = Tail(ch)]_vars
    /\ [][(wpc = "dwrite" /\ <<wpc, wi>>' # <<wpc, wi>>)
             => /\ wrote'[wi] = Append(wrote[wi], wline)
                /\ IF wi < Len(writers)
                   THEN wpc' = "dwrite" /\ wi' = wi + 1
                   ELSE wpc' = "drain"]_vars
    /\ [][(wpc = "dflush" /\ <<wpc, wi>>' # <<wpc, wi>>)
             => /\ bufs'[wi] = <<>>
                /\ IF wi < Len(writers)
                   THEN wpc' = "dflush" /\ wi' = wi + 1
                   ELSE wpc' = "return"]_vars
    /\ [][(wpc \in {"dflush", "return", "stopped"})
             => (wrote' = wrote /\ wpc' \in {"dflush", "return", "stopped"})]_vars
    /\ (wpc = "drain") ~> (wpc = "stopped")

\* In the drain loop a record is being written to the second sink while the
\* channel holds another one.
C16_Witness ==
    /\ wpc = "dwrite"
    /\ wi = Len(writers)
    /\ ch # <<>>

C18_FanOut ==
    /\ [](\A i \in Sinks \ {1} :
            /\ Len(wrote[i]) <= Len(wrote[i - 1])
            /\ Len(wrote[i - 1]) <= Len(wrote[i]) + 1
            /\ wrote[i] = SubSeq(wrote[i - 1], 1, Len(wrote[i])))
    /\ [](wpc \notin {"write", "dwrite"} => \A i \in Sinks : wrote[i] = wrote[1])
    /\ [](\A i \in Sinks :
            IF i \in broken THEN out[i] = <<>> ELSE out[i] \o bufs[i] = wrote[i])
    /\ <>[](\A r \in SentRunning : WrittenEverywhere(r))
    /\ done ~> (\A i \in Sinks \ broken : bufs[i] = <<>>)

\* The first sink is broken and the second is not; a Flush of the first has
\* failed and a later Write to it was refused; the second sink has received
\* every record.
C18_Witness ==
    /\ broken = {1}
    /\ err[1]
    /\ Len(wrote[1]) > Len(bufs[1])
    /\ Len(out[Len(writers)]) = MaxCalls
    /\ out[Len(writers)] = wrote[1]

\* The holders of a buffer; a buffer is named by the record formatted into it.
HeldByProducer(r) == \E p \in Producers : pc[p] = "select" /\ line[p] = r
InQueue(r) == r \in Range(ch)
HeldByWorker(r) == wpc \in {"write", "dwrite"} /\ wline = r
InPool(r) == r \in pool
Buffers ==
    {line[p] : p \in {q \in Producers : pc[q] = "select"}}
        \cup Range(ch) \cup (IF wpc \in {"write", "dwrite"} THEN {wline} ELSE {}) \cup pool
HolderCount(r) ==
    (IF HeldByProducer(r) THEN 1 ELSE 0) + (IF InQueue(r) THEN 1 ELSE 0)
        + (IF HeldByWorker(r) THEN 1 ELSE 0) + (IF InPool(r) THEN 1 ELSE 0)

\* C19: every buffer has exactly one holder: a producer between Get and its
\* select, the channel, the writer goroutine, or the pool; it is in the
\* channel once and with one producer; so what the pool holds, and can hand
\* out, is held by nobody else.  A buffer the writer goroutine received is in
\* the pool only after bw.Write of every sink was called with it, and a
\* buffer in the pool that was written to no sink was put back by a producer.
C19_BufferOwnership ==
    /\ \A r \in Buffers : HolderCount(r) = 1
    /\ \A j, k \in 1..Len(ch) : ch[j] = ch[k] => j = k
    /\ \A p, q \in Producers :
         (pc[p] = "select" /\ pc[q] = "select" /\ line[p] = line[q]) => p = q
    /\ \A r \in pool :
         (\E i \in Sinks : r \in Range(wrote[i])) => WrittenEverywhere(r)
    /\ HeldByWorker(wline) => \A i \in Sinks :
         (wline \in Range(wrote[i])) <=> i < wi

\* A buffer is back in the pool, one is in the channel, and the writer
\* goroutine holds a third one, written to the first sink only.
C19_Witness ==
    /\ pool # {}
    /\ ch # <<>>
    /\ wpc = "write"
    /\ wi = Len(writers)

\* C20 (as claimed): in the drop-on-full variant no Close call, first or
\* second, one after the other or at the same time, crashes the process, and
\* no writer receives a second Close call.
C20_CloseIdempotentDrop ==
    /\ ~panicked
    /\ \A i \in Sinks : closed[i] <= 1

\* C21 (as claimed): in the synchronous variant, when Close starts closing
\* the writers every buffer has been flushed (it is empty, or its sink
\* refused the bytes); and when a Close call has returned every writer that
\* has Close has received a Close call, whether or not a Close before it in
\* the list returned an error.
C21_CloseReachesEverySink ==
    /\ \A c \in Closers :
         cpc[c] = "close" => \A i \in Sinks : bufs[i] = <<>> \/ err[i]
    /\ CloseReturned => \A i \in Sinks : IsCloser(i) => closed[i] >= 1

\* C22 (as claimed): once writerLoop has returned the channel is empty, and
\* every record sent on the channel is in the end written to every sink.
C22_NoStrandedRecords ==
    /\ [](wpc = "stopped" => ch = <<>>)
    /\ <>[](\A r \in Sent : WrittenEverywhere(r))

\* The producer is between l.mu.Lock() and l.mu.Unlock() of log.
InSection(p) == pc[p] \in {"write", "flush", "unlock"}

\* C23: in the synchronous variant at most one producer is between Lock and
\* Unlock, and while it is there no other goroutine's step touches a sink;
\* the sequences of records passed to the sinks are at any time the same up
\* to the record being written; and whenever the mutex is free every sink
\* has been passed, and has received, the same sequence of records.
C23_SameOrder ==
    /\ [](\A p, q \in Producers : (InSection(p) /\ InSection(q)) => p = q)
    /\ [][\A p \in Producers :
            (InSection(p) /\ <<pc[p], pi[p]>>' = <<pc[p], pi[p]>>)
                => <<wrote, bufs, out>>' = <<wrote, bufs, out>>]_vars
    /\ [](\A i \in Sinks \ {1} :
            /\ Len(wrote[i]) <= Len(wrote[i - 1])
            /\ Len(wrote[i - 1]) <= Len(wrote[i]) + 1
            /\ wrote[i] = SubSeq(wrote[i - 1], 1, Len(wrote[i])))
    /\ [](mu = "free" =>
            \A i \in Sinks : wrote[i] = wrote[1] /\ out[i] = wrote[i] /\ bufs[i] = <<>>)

\* Records of both producers have reached the sinks; one producer is in its
\* flush loop and the other waits for the mutex.
C23_Witness ==
    \E p, q \in Producers :
        /\ pc[p] = "flush"
        /\ pc[q] = "lock"
        /\ \E j \in 1..Len(out[1]) : out[1][j].msg[1] = q
        /\ Len(wrote[Len(writers)]) = MaxCalls - 1

====
